---- MODULE Spec2Model ----
(***************************************************************************)
(* Data layer of the car-rental application (core/api/models.py).          *)
(* The state is the relational database (one table per model class) plus   *)
(* the model instances held in memory; the operations are instantiation,   *)
(* save() and delete() of the model classes, and the wall clock.           *)
(***************************************************************************)
EXTENDS Integers, Sequences, FiniteSets, TLC

\* ---------------------------------------------------------------- bounds
MaxTime == 2        \* the clock runs over 0..MaxTime
MaxUsers == 1       \* ProfileUser ids
MaxAddresses == 1   \* Address ids
MaxBrands == 2      \* Brand ids
MaxCars == 2        \* Car ids
MaxLive == 2        \* model instances held in memory at one time
MaxUuids == 2       \* values uuid.uuid4() can return

UserIds == 1..MaxUsers
AddressIds == 1..MaxAddresses
BrandIds == 1..MaxBrands
CarIds == 1..MaxCars
Ids == 1..(MaxLive + 1)
Uuids == 1..MaxUuids

\* value of a DateTimeField that was never assigned (auto_now field of a
\* fresh instance)
None == -1

VARIABLES
    now,            \* the wall clock read by timezone.now()
    users,          \* ProfileUser table: set of ids
    addresses,      \* Address table: set of ids
    brands,         \* Brand table: set of ids
    cars,           \* Car table: id -> row
    rental_obj,     \* Rental instances in memory: id -> fields
    rental_db,      \* Rental table: id -> row
    review_obj, review_db,
    favorite_obj, favorite_db,
    payment_obj,    \* Payment instances in memory: instance -> fields
    payment_db,     \* Payment table: payment_hash -> row
    booking_obj, booking_db,
    booking_payments \* Booking.payments through table: <<booking id, hash>>

parents == <<users, addresses, brands, cars>>
objs == <<rental_obj, review_obj, favorite_obj, payment_obj, booking_obj>>
tables == <<rental_db, review_db, favorite_db, payment_db, booking_db,
            booking_payments>>
vars == <<now, parents, objs, tables>>

\* ------------------------------------------------------------- helpers
Drop(f, S) == [k \in DOMAIN f \ S |-> f[k]]
Put(f, k, v) == [x \in DOMAIN f \cup {k} |-> IF x = k THEN v ELSE f[x]]

timezone_now == now

\* number of instances in memory, and the id the next instance of a class
\* gets: the smallest one that no instance in `f` and no row in `db` has
Live ==
    Cardinality(DOMAIN rental_obj) + Cardinality(DOMAIN review_obj)
    + Cardinality(DOMAIN favorite_obj) + Cardinality(DOMAIN payment_obj)
    + Cardinality(DOMAIN booking_obj)

NextId(f, db) ==
    LET used == DOMAIN f \cup DOMAIN db
    IN  CHOOSE i \in Ids : i \notin used /\ \A j \in 1..(i - 1) : j \in used

\* ---- hashlib.sha256(uuid.uuid4().bytes).hexdigest()
DigestSize == 32
HexDigits == <<"0", "1", "2", "3", "4", "5", "6", "7",
               "8", "9", "a", "b", "c", "d", "e", "f">>

\* the digest of a uuid: DigestSize bytes, a fixed function of the input
sha256(u) == [k \in 1..DigestSize |-> (u * 131 + k * 29 + u * k) % 256]

\* one hexadecimal character per byte: the high nibble is lost
hexdigest_low(bytes) ==
    [k \in 1..Len(bytes) |-> HexDigits[(bytes[k] % 16) + 1]]

\* two lower-case hexadecimal characters per byte, high nibble first
hexdigest(bytes) ==
    [k \in 1..(2 * Len(bytes)) |->
        LET b == bytes[(k + 1) \div 2]
        IN  IF k % 2 = 1 THEN HexDigits[(b \div 16) + 1]
                         ELSE HexDigits[(b % 16) + 1]]

Init ==
    /\ now = 0
    /\ users = {} /\ addresses = {} /\ brands = {}
    /\ cars = << >>
    /\ rental_obj = << >> /\ rental_db = << >>
    /\ review_obj = << >> /\ review_db = << >>
    /\ favorite_obj = << >> /\ favorite_db = << >>
    /\ payment_obj = << >> /\ payment_db = << >>
    /\ booking_obj = << >> /\ booking_db = << >>
    /\ booking_payments = {}

Tick ==
    /\ now < MaxTime
    /\ now' = now + 1
    /\ UNCHANGED <<parents, objs, tables>>

\* ------------------------------------------------- ProfileUser, Address
\* (core.authentication.models, imported by the api models)
UserCreate(u) ==
    /\ u \in UserIds \ users
    /\ users' = users \cup {u}
    /\ UNCHANGED <<now, addresses, brands, cars, objs, tables>>

AddressCreate(a) ==
    /\ a \in AddressIds \ addresses
    /\ addresses' = addresses \cup {a}
    /\ UNCHANGED <<now, users, brands, cars, objs, tables>>

\* ------------------------------------------------------------ Brand, Car
BrandCreate(b) ==
    /\ b \in BrandIds \ brands
    /\ brands' = brands \cup {b}
    /\ UNCHANGED <<now, users, addresses, cars, objs, tables>>

\* the brand foreign key is checked by the database on insert
CarCreate(c, b) ==
    /\ c \in CarIds \ DOMAIN cars
    /\ b \in brands
    /\ cars' = Put(cars, c, [brand |-> b])
    /\ UNCHANGED <<now, users, addresses, brands, objs, tables>>

\* ------------------------------------------- on_delete = models.CASCADE
\* rows that refer to a deleted row, one operator per referring class
\* Car.brand without the cascade
CarsOf_none(B) == {}

CarsOf(B) == {c \in DOMAIN cars : cars[c].brand \in B}

\* Rental.car without the cascade
RentalsOf_owner(U, C) == {r \in DOMAIN rental_db : rental_db[r].owner \in U}

RentalsOf(U, C) ==
    {r \in DOMAIN rental_db :
        rental_db[r].owner \in U \/ rental_db[r].car \in C}

ReviewsOf(U, R) ==
    {v \in DOMAIN review_db :
        review_db[v].reviewer \in U \/ review_db[v].rental \in R}

FavoritesOf(U, R) ==
    {f \in DOMAIN favorite_db :
        favorite_db[f].owner \in U \/ favorite_db[f].rental \in R}

PaymentsOf(U) ==
    {h \in DOMAIN payment_db :
        payment_db[h].owner \in U \/ payment_db[h].receiver \in U}

BookingsOf(U, R, A) ==
    {k \in DOMAIN booking_db :
        \/ booking_db[k].renter \in U
        \/ booking_db[k].rental \in R
        \/ booking_db[k].location \in A}

\* the through table cleaned for deleted bookings only
LinksOf_bookings(BK, P) == {l \in booking_payments : l[1] \in BK}

\* rows of the Booking.payments through table of deleted bookings/payments
LinksOf(BK, P) == {l \in booking_payments : l[1] \in BK \/ l[2] \in P}

\* delete the given rows and everything that cascades from them
Collect(U, A, B, C, R, RV, F, P, BK) ==
    LET C2  == C \cup CarsOf(B)
        R2  == R \cup RentalsOf(U, C2)
        RV2 == RV \cup ReviewsOf(U, R2)
        F2  == F \cup FavoritesOf(U, R2)
        P2  == P \cup PaymentsOf(U)
        BK2 == BK \cup BookingsOf(U, R2, A)
    IN  /\ users' = users \ U
        /\ addresses' = addresses \ A
        /\ brands' = brands \ B
        /\ cars' = Drop(cars, C2)
        /\ rental_db' = Drop(rental_db, R2)
        /\ review_db' = Drop(review_db, RV2)
        /\ favorite_db' = Drop(favorite_db, F2)
        /\ payment_db' = Drop(payment_db, P2)
        /\ booking_db' = Drop(booking_db, BK2)
        /\ booking_payments' = booking_payments \ LinksOf(BK2, P2)

UserDelete(u) ==
    /\ u \in users
    /\ Collect({u}, {}, {}, {}, {}, {}, {}, {}, {})
    /\ UNCHANGED <<now, objs>>

AddressDelete(a) ==
    /\ a \in addresses
    /\ Collect({}, {a}, {}, {}, {}, {}, {}, {}, {})
    /\ UNCHANGED <<now, objs>>

BrandDelete(b) ==
    /\ b \in brands
    /\ Collect({}, {}, {b}, {}, {}, {}, {}, {}, {})
    /\ UNCHANGED <<now, objs>>

CarDelete(c) ==
    /\ c \in DOMAIN cars
    /\ Collect({}, {}, {}, {c}, {}, {}, {}, {}, {})
    /\ UNCHANGED <<now, objs>>

\* ---------------------------------------------------------------- Rental
\* Rental(owner=u, car=c): created_at defaults to timezone.now, updated_at
\* (auto_now) has no value until the first save
RentalNew(i, u, c) ==
    /\ Live < MaxLive
    /\ i = NextId(rental_obj, rental_db)
    /\ u \in users /\ c \in DOMAIN cars
    /\ rental_obj' = Put(rental_obj, i,
            [owner |-> u, car |-> c,
             created_at |-> timezone_now, updated_at |-> None])
    /\ UNCHANGED <<now, parents, tables,
                   review_obj, favorite_obj, payment_obj, booking_obj>>

\* Rental.save without the assignment of updated_at
Rental_save_stale(self) == self

\* Rental.save: what it assigns on self before the row is written
Rental_save(self) == [self EXCEPT !.updated_at = timezone_now]

\* the row is written unless the database rejects a foreign key
RentalSave(i) ==
    /\ i \in DOMAIN rental_obj
    /\ LET self == Rental_save(rental_obj[i])
       IN  /\ rental_obj' = Put(rental_obj, i, self)
           /\ rental_db' = IF self.owner \in users /\ self.car \in DOMAIN cars
                           THEN Put(rental_db, i, self)
                           ELSE rental_db
    /\ UNCHANGED <<now, parents, review_obj, favorite_obj, payment_obj,
                   booking_obj, review_db, favorite_db, payment_db,
                   booking_db, booking_payments>>

RentalDelete(i) ==
    /\ i \in DOMAIN rental_obj \cap DOMAIN rental_db
    /\ Collect({}, {}, {}, {}, {i}, {}, {}, {}, {})
    /\ rental_obj' = Drop(rental_obj, {i})
    /\ UNCHANGED <<now, review_obj, favorite_obj, payment_obj, booking_obj>>

\* ---------------------------------------------------------------- Review
ReviewNew(i, u, r) ==
    /\ Live < MaxLive
    /\ i = NextId(review_obj, review_db)
    /\ u \in users /\ r \in DOMAIN rental_db
    /\ review_obj' = Put(review_obj, i,
            [reviewer |-> u, rental |-> r,
             created_at |-> timezone_now, updated_at |-> None])
    /\ UNCHANGED <<now, parents, tables,
                   rental_obj, favorite_obj, payment_obj, booking_obj>>

\* Review.save that falls back to created_at once updated_at has a value
Review_save_reset(self) ==
    [self EXCEPT !.updated_at =
        IF self.updated_at = None THEN timezone_now ELSE self.created_at]

Review_save(self) == [self EXCEPT !.updated_at = timezone_now]

ReviewSave(i) ==
    /\ i \in DOMAIN review_obj
    /\ LET self == Review_save(review_obj[i])
       IN  /\ review_obj' = Put(review_obj, i, self)
           /\ review_db' = IF /\ self.reviewer \in users
                              /\ self.rental \in DOMAIN rental_db
                           THEN Put(review_db, i, self)
                           ELSE review_db
    /\ UNCHANGED <<now, parents, rental_obj, favorite_obj, payment_obj,
                   booking_obj, rental_db, favorite_db, payment_db,
                   booking_db, booking_payments>>

ReviewDelete(i) ==
    /\ i \in DOMAIN review_obj \cap DOMAIN review_db
    /\ Collect({}, {}, {}, {}, {}, {i}, {}, {}, {})
    /\ review_obj' = Drop(review_obj, {i})
    /\ UNCHANGED <<now, rental_obj, favorite_obj, payment_obj, booking_obj>>

\* -------------------------------------------------------------- Favorite
FavoriteNew(i, u, r) ==
    /\ Live < MaxLive
    /\ i = NextId(favorite_obj, favorite_db)
    /\ u \in users /\ r \in DOMAIN rental_db
    /\ favorite_obj' = Put(favorite_obj, i,
            [owner |-> u, rental |-> r,
             created_at |-> timezone_now, updated_at |-> None])
    /\ UNCHANGED <<now, parents, tables,
                   rental_obj, review_obj, payment_obj, booking_obj>>

\* Favorite.save that stamps a time one tick in the past
Favorite_save_lag(self) == [self EXCEPT !.updated_at = timezone_now - 1]

Favorite_save(self) == [self EXCEPT !.updated_at = timezone_now]

FavoriteSave(i) ==
    /\ i \in DOMAIN favorite_obj
    /\ LET self == Favorite_save(favorite_obj[i])
       IN  /\ favorite_obj' = Put(favorite_obj, i, self)
           /\ favorite_db' = IF /\ self.owner \in users
                                /\ self.rental \in DOMAIN rental_db
                             THEN Put(favorite_db, i, self)
                             ELSE favorite_db
    /\ UNCHANGED <<now, parents, rental_obj, review_obj, payment_obj,
                   booking_obj, rental_db, review_db, payment_db,
                   booking_db, booking_payments>>

FavoriteDelete(i) ==
    /\ i \in DOMAIN favorite_obj \cap DOMAIN favorite_db
    /\ Collect({}, {}, {}, {}, {}, {}, {i}, {}, {})
    /\ favorite_obj' = Drop(favorite_obj, {i})
    /\ UNCHANGED <<now, rental_obj, review_obj, payment_obj, booking_obj>>

\* --------------------------------------------------------------- Payment
Status == {"Pending", "Completed", "Cancelled", "Failed"}
EmptyHash == << >>

\* Payment(owner=o, receiver=r, payment_hash=h): payment_hash is a plain
\* CharField, empty unless the caller passes one
PaymentNew(p, o, r, h) ==
    /\ Live < MaxLive
    /\ p = NextId(payment_obj, << >>)
    /\ o \in users /\ r \in users
    /\ h \in {EmptyHash} \cup DOMAIN payment_db
    /\ payment_obj' = Put(payment_obj, p,
            [payment_hash |-> h, owner |-> o, receiver |-> r,
             payment_status |-> "Pending",
             created_at |-> timezone_now, updated_at |-> None])
    /\ UNCHANGED <<now, parents, tables,
                   rental_obj, review_obj, favorite_obj, booking_obj>>

\* a caller changes another field of the instance between saves
PaymentSetStatus(p, s) ==
    /\ p \in DOMAIN payment_obj
    /\ s \in Status \ {payment_obj[p].payment_status}
    /\ payment_obj' = [payment_obj EXCEPT ![p].payment_status = s]
    /\ UNCHANGED <<now, parents, tables,
                   rental_obj, review_obj, favorite_obj, booking_obj>>

\* Payment.save without the `if not self.payment_hash` test
Payment_save_regen(self, u) ==
    [self EXCEPT !.payment_hash = hexdigest(sha256(u)),
                 !.updated_at = timezone_now]

\* Payment.save: what it assigns on self; u is the value of uuid.uuid4()
Payment_save(self, u) ==
    [self EXCEPT
        !.payment_hash = IF self.payment_hash = EmptyHash
                         THEN hexdigest(sha256(u))
                         ELSE self.payment_hash,
        !.updated_at = timezone_now]

\* payment_hash is the primary key: the row with that key is updated when
\* there is one and inserted otherwise
PaymentSave(p, u) ==
    /\ p \in DOMAIN payment_obj
    /\ u \in Uuids
    /\ LET self == Payment_save(payment_obj[p], u)
       IN  /\ payment_obj' = Put(payment_obj, p, self)
           /\ payment_db' = IF self.owner \in users /\ self.receiver \in users
                            THEN Put(payment_db, self.payment_hash, self)
                            ELSE payment_db
    /\ UNCHANGED <<now, parents, rental_obj, review_obj, favorite_obj,
                   booking_obj, rental_db, review_db, favorite_db,
                   booking_db, booking_payments>>

PaymentDelete(p) ==
    /\ p \in DOMAIN payment_obj
    /\ payment_obj[p].payment_hash \in DOMAIN payment_db
    /\ Collect({}, {}, {}, {}, {}, {}, {}, {payment_obj[p].payment_hash}, {})
    /\ payment_obj' = Drop(payment_obj, {p})
    /\ UNCHANGED <<now, rental_obj, review_obj, favorite_obj, booking_obj>>

\* --------------------------------------------------------------- Booking
BookingNew(i, u, r, a) ==
    /\ Live < MaxLive
    /\ i = NextId(booking_obj, booking_db)
    /\ u \in users /\ r \in DOMAIN rental_db /\ a \in addresses
    /\ booking_obj' = Put(booking_obj, i,
            [renter |-> u, rental |-> r, location |-> a,
             created_at |-> timezone_now, updated_at |-> None])
    /\ UNCHANGED <<now, parents, tables,
                   rental_obj, review_obj, favorite_obj, payment_obj>>

\* Booking.save that also restamps created_at
Booking_save_touch(self) ==
    [self EXCEPT !.updated_at = timezone_now, !.created_at = timezone_now]

Booking_save(self) == [self EXCEPT !.updated_at = timezone_now]

BookingSave(i) ==
    /\ i \in DOMAIN booking_obj
    /\ LET self == Booking_save(booking_obj[i])
       IN  /\ booking_obj' = Put(booking_obj, i, self)
           /\ booking_db' = IF /\ self.renter \in users
                               /\ self.rental \in DOMAIN rental_db
                               /\ self.location \in addresses
                            THEN Put(booking_db, i, self)
                            ELSE booking_db
    /\ UNCHANGED <<now, parents, rental_obj, review_obj, favorite_obj,
                   payment_obj, rental_db, review_db, favorite_db,
                   payment_db, booking_payments>>

\* booking.payments.add(payment): a row of the through table
BookingPaymentsAdd(i, h) ==
    /\ i \in DOMAIN booking_db
    /\ h \in DOMAIN payment_db
    /\ <<i, h>> \notin booking_payments
    /\ booking_payments' = booking_payments \cup {<<i, h>>}
    /\ UNCHANGED <<now, parents, objs, rental_db, review_db, favorite_db,
                   payment_db, booking_db>>

BookingDelete(i) ==
    /\ i \in DOMAIN booking_obj \cap DOMAIN booking_db
    /\ Collect({}, {}, {}, {}, {}, {}, {}, {}, {i})
    /\ booking_obj' = Drop(booking_obj, {i})
    /\ UNCHANGED <<now, rental_obj, review_obj, favorite_obj, payment_obj>>

\* ---------------------------------------------------------- specifications
ParentOps ==
    \/ \E u \in UserIds : UserCreate(u) \/ UserDelete(u)
    \/ \E a \in AddressIds : AddressCreate(a) \/ AddressDelete(a)
    \/ \E b \in BrandIds : BrandCreate(b) \/ BrandDelete(b)
    \/ \E c \in CarIds : CarDelete(c) \/ \E b \in BrandIds : CarCreate(c, b)

NewOps ==
    \/ \E i \in Ids, u \in UserIds, c \in CarIds : RentalNew(i, u, c)
    \/ \E i \in Ids, u \in UserIds, r \in Ids : ReviewNew(i, u, r)
    \/ \E i \in Ids, u \in UserIds, r \in Ids : FavoriteNew(i, u, r)
    \/ \E p \in Ids, o \in UserIds, r \in UserIds :
            \E h \in {EmptyHash} \cup DOMAIN payment_db : PaymentNew(p, o, r, h)
    \/ \E i \in Ids, u \in UserIds, r \in Ids, a \in AddressIds :
            BookingNew(i, u, r, a)

SaveOps ==
    \/ \E i \in Ids : RentalSave(i)
    \/ \E i \in Ids : ReviewSave(i)
    \/ \E i \in Ids : FavoriteSave(i)
    \/ \E p \in Ids, u \in Uuids : PaymentSave(p, u)
    \/ \E i \in Ids : BookingSave(i)

LinkOps == \E i \in Ids, h \in DOMAIN payment_db : BookingPaymentsAdd(i, h)

DeleteOps ==
    \/ \E i \in Ids : RentalDelete(i)
    \/ \E i \in Ids : ReviewDelete(i)
    \/ \E i \in Ids : FavoriteDelete(i)
    \/ \E p \in Ids : PaymentDelete(p)
    \/ \E i \in Ids : BookingDelete(i)

StatusOps == \E p \in Ids, s \in Status : PaymentSetStatus(p, s)

\* the whole system
Next ==
    Tick \/ ParentOps \/ NewOps \/ SaveOps \/ LinkOps \/ DeleteOps \/ StatusOps

Spec == Init /\ [][Next]_vars

\* creation and deletion of rows of every table, at one instant
NextCascade == ParentOps \/ NewOps \/ SaveOps \/ DeleteOps

SpecCascade == Init /\ [][NextCascade]_vars

\* the database once users, addresses, brands, cars and a first rental
\* exist, with no instance in memory
InitSeeded ==
    /\ now = 0
    /\ users = UserIds /\ addresses = AddressIds /\ brands = BrandIds
    /\ cars = [c \in CarIds |-> [brand |-> ((c - 1) % MaxBrands) + 1]]
    /\ rental_obj = << >>
    /\ rental_db = [i \in {1} |-> [owner |-> 1, car |-> 1,
                                   created_at |-> 0, updated_at |-> 0]]
    /\ review_obj = << >> /\ review_db = << >>
    /\ favorite_obj = << >> /\ favorite_db = << >>
    /\ payment_obj = << >> /\ payment_db = << >>
    /\ booking_obj = << >> /\ booking_db = << >>
    /\ booking_payments = {}

\* saves of the timestamped records over time, on that database
NextSave == Tick \/ NewOps \/ SaveOps \/ LinkOps \/ DeleteOps \/ StatusOps

SpecSave == InitSeeded /\ [][NextSave]_vars

\* ------------------------------------------------------------ properties
HexChars == {HexDigits[k] : k \in 1..Len(HexDigits)}

\* C1: every save() of a Rental, Review, Favorite, Payment or Booking leaves
\* the instance's updated_at equal to the current time, and so the row it
\* wrote
C1_UpdatedAtIsNow ==
    [][/\ \A i \in Ids : RentalSave(i) =>
            /\ rental_obj'[i].updated_at = now'
            /\ rental_db' # rental_db => rental_db'[i].updated_at = now'
       /\ \A i \in Ids : ReviewSave(i) =>
            /\ review_obj'[i].updated_at = now'
            /\ review_db' # review_db => review_db'[i].updated_at = now'
       /\ \A i \in Ids : FavoriteSave(i) =>
            /\ favorite_obj'[i].updated_at = now'
            /\ favorite_db' # favorite_db => favorite_db'[i].updated_at = now'
       /\ \A i \in Ids : BookingSave(i) =>
            /\ booking_obj'[i].updated_at = now'
            /\ booking_db' # booking_db => booking_db'[i].updated_at = now'
       /\ \A p \in Ids : (\E u \in Uuids : PaymentSave(p, u)) =>
            /\ payment_obj'[p].updated_at = now'
            /\ payment_db' # payment_db =>
                 payment_db'[payment_obj'[p].payment_hash].updated_at = now'
      ]_vars

\* a Rental saved later than it was instantiated carries the time of the save
C1_Witness ==
    \E i \in DOMAIN rental_obj \cap DOMAIN rental_db :
        /\ rental_obj[i].updated_at = now
        /\ rental_db[i].updated_at = now
        /\ rental_obj[i].created_at < now

\* C2: over the saves of one record updated_at never decreases, in the
\* instance and in its row
NoDecrease(f, g) ==
    \A k \in DOMAIN f \cap DOMAIN g :
        f[k].updated_at # None => g[k].updated_at >= f[k].updated_at

C2_UpdatedAtNeverDecreases ==
    [][/\ NoDecrease(rental_obj, rental_obj') /\ NoDecrease(rental_db, rental_db')
       /\ NoDecrease(review_obj, review_obj') /\ NoDecrease(review_db, review_db')
       /\ NoDecrease(favorite_obj, favorite_obj')
       /\ NoDecrease(favorite_db, favorite_db')
       /\ NoDecrease(payment_obj, payment_obj')
       /\ NoDecrease(payment_db, payment_db')
       /\ NoDecrease(booking_obj, booking_obj')
       /\ NoDecrease(booking_db, booking_db')
      ]_vars

\* a Review saved, and saved again at a later time
C2_Witness ==
    \E i \in DOMAIN review_obj \cap DOMAIN review_db :
        /\ review_obj[i].created_at = 0
        /\ review_db[i].updated_at = MaxTime
        /\ review_obj[i].updated_at = MaxTime

\* C3: save() of a Payment whose payment_hash is empty gives it a hash of 64
\* hexadecimal characters, under which the row is written; no row of the
\* Payment table has an empty key
IsSha256Hex(h) == Len(h) = 2 * DigestSize /\ \A k \in 1..Len(h) : h[k] \in HexChars

C3_NewPaymentGetsHash ==
    [][/\ \A p \in Ids :
            (/\ p \in DOMAIN payment_obj
             /\ payment_obj[p].payment_hash = EmptyHash
             /\ \E u \in Uuids : PaymentSave(p, u))
            => /\ IsSha256Hex(payment_obj'[p].payment_hash)
               /\ payment_obj'[p].payment_hash \in DOMAIN payment_db'
       /\ \A h \in DOMAIN payment_db' :
            h # EmptyHash /\ payment_db'[h].payment_hash = h
      ]_vars

\* a Payment instantiated without a hash and saved
C3_Witness ==
    \E p \in DOMAIN payment_obj :
        /\ IsSha256Hex(payment_obj[p].payment_hash)
        /\ payment_obj[p].payment_hash \in DOMAIN payment_db
        /\ payment_db[payment_obj[p].payment_hash].updated_at
             = payment_obj[p].updated_at

\* C4: a Payment's payment_hash, once set, is the same after every later
\* step, saves and changes of its other fields included
C4_HashGeneratedOnce ==
    [][\A p \in DOMAIN payment_obj \cap DOMAIN payment_obj' :
            payment_obj[p].payment_hash # EmptyHash
            => payment_obj'[p].payment_hash = payment_obj[p].payment_hash
      ]_vars

\* a Payment whose status was changed and that was saved after its first
\* save
C4_Witness ==
    \E p \in DOMAIN payment_obj :
        LET h == payment_obj[p].payment_hash
        IN  /\ h \in DOMAIN payment_db
            /\ payment_db[h].payment_status = "Completed"
            /\ payment_db[h].created_at = 0
            /\ payment_db[h].updated_at = MaxTime
            /\ payment_obj[p].payment_status = "Pending"

\* C5: deleting a Brand deletes exactly the Cars whose brand it is; the Cars
\* of the other Brands stay as they were and no Car refers to the deleted
\* Brand afterwards
C5_BrandDeleteCascadesToCars ==
    [][\A b \in BrandIds : BrandDelete(b) =>
            /\ DOMAIN cars' = {c \in DOMAIN cars : cars[c].brand # b}
            /\ \A c \in DOMAIN cars' : cars'[c] = cars[c] /\ cars'[c].brand # b
            /\ b \notin brands'
      ]_vars

\* a Rental was saved for a Car that is gone with its Brand, while the Car of
\* another Brand is still there
C5_Witness ==
    \E i \in DOMAIN rental_obj :
        /\ rental_obj[i].updated_at # None
        /\ i \notin DOMAIN rental_db
        /\ rental_obj[i].owner \in users
        /\ rental_obj[i].car \notin DOMAIN cars
        /\ \E c \in DOMAIN cars, b \in BrandIds \ brands : cars[c].brand # b

\* C6: every foreign key of every row refers to a row that exists
C6_NoDanglingReference ==
    /\ \A c \in DOMAIN cars : cars[c].brand \in brands
    /\ \A r \in DOMAIN rental_db :
            rental_db[r].owner \in users /\ rental_db[r].car \in DOMAIN cars
    /\ \A v \in DOMAIN review_db :
            /\ review_db[v].reviewer \in users
            /\ review_db[v].rental \in DOMAIN rental_db
    /\ \A f \in DOMAIN favorite_db :
            /\ favorite_db[f].owner \in users
            /\ favorite_db[f].rental \in DOMAIN rental_db
    /\ \A h \in DOMAIN payment_db :
            payment_db[h].owner \in users /\ payment_db[h].receiver \in users
    /\ \A k \in DOMAIN booking_db :
            /\ booking_db[k].renter \in users
            /\ booking_db[k].rental \in DOMAIN rental_db
            /\ booking_db[k].location \in addresses

\* a Brand was deleted under a Car, a Rental of that Car and a Booking of
\* that Rental: the saved instances are left without rows
C6_Witness ==
    \E k \in DOMAIN booking_obj, r \in DOMAIN rental_obj :
        /\ booking_obj[k].rental = r
        /\ booking_obj[k].updated_at # None /\ rental_obj[r].updated_at # None
        /\ k \notin DOMAIN booking_db /\ r \notin DOMAIN rental_db
        /\ booking_obj[k].renter \in users
        /\ booking_obj[k].location \in addresses
        /\ rental_obj[r].car \notin DOMAIN cars
        /\ brands = {}

\* C7: save() changes updated_at of the instance it is called on and, for a
\* Payment without a hash, payment_hash; it changes no other field of it, no
\* other instance, and no row but the one with the instance's primary key,
\* which it sets to the instance's fields
OnlyUpdatedAt(f, g, i) == g = [f EXCEPT ![i].updated_at = g[i].updated_at]

OnlyRow(db, db2, k, self) ==
    \/ db2 = db
    \/ db2 = Put(db, k, self)

CreatedNow(f, g) == \A k \in DOMAIN g \ DOMAIN f : g[k].created_at = now

CreatedBeforeUpdated(f) ==
    \A k \in DOMAIN f :
        f[k].updated_at # None => f[k].created_at <= f[k].updated_at

C8_CreatedAtBeforeUpdatedAt ==
    [][/\ CreatedNow(rental_obj, rental_obj') /\ CreatedNow(review_obj, review_obj')
       /\ CreatedNow(favorite_obj, favorite_obj')
       /\ CreatedNow(payment_obj, payment_obj')
       /\ CreatedNow(booking_obj, booking_obj')
       /\ CreatedBeforeUpdated(rental_obj') /\ CreatedBeforeUpdated(rental_db')
       /\ CreatedBeforeUpdated(review_obj') /\ CreatedBeforeUpdated(review_db')
       /\ CreatedBeforeUpdated(favorite_obj') /\ CreatedBeforeUpdated(favorite_db')
       /\ CreatedBeforeUpdated(payment_obj') /\ CreatedBeforeUpdated(payment_db')
       /\ CreatedBeforeUpdated(booking_obj') /\ CreatedBeforeUpdated(booking_db')
      ]_vars

\* a Favorite instantiated after time 0 and saved later still
C8_Witness ==
    \E f \in DOMAIN favorite_db :
        0 < favorite_db[f].created_at
        /\ favorite_db[f].created_at < favorite_db[f].updated_at

\* C9: the first save of a Payment instance adds one row to the Payment
\* table and leaves the rows that were there as they were
C9_NewPaymentAddsOneRecord ==
    [][\A p \in Ids :
            (/\ p \in DOMAIN payment_obj
             /\ payment_obj[p].updated_at = None
             /\ \E u \in Uuids : PaymentSave(p, u))
            => /\ Cardinality(DOMAIN payment_db')
                    = Cardinality(DOMAIN payment_db) + 1
               /\ \A h \in DOMAIN payment_db : payment_db'[h] = payment_db[h]
      ]_vars

\* C10: deleting a Payment deletes its rows of the Booking.payments through
\* table and no Booking; deleting a Booking deletes its rows of the through
\* table and no Payment; every row of the through table refers to a Booking
\* and a Payment that exist
C10_PaymentsLinkNotOwning ==
    [][/\ \A p \in DOMAIN payment_obj : PaymentDelete(p) =>
            /\ booking_db' = booking_db
            /\ booking_payments' =
                 {l \in booking_payments : l[2] # payment_obj[p].payment_hash}
       /\ \A i \in Ids : BookingDelete(i) =>
            /\ payment_db' = payment_db
            /\ booking_payments' = {l \in booking_payments : l[1] # i}
       /\ \A l \in booking_payments' :
            l[1] \in DOMAIN booking_db' /\ l[2] \in DOMAIN payment_db'
      ]_vars

\* a Booking lists a Payment, and both can be deleted through an instance
C10_Witness ==
    \E l \in booking_payments :
        /\ l[1] \in DOMAIN booking_obj
        /\ \E p \in DOMAIN payment_obj : payment_obj[p].payment_hash = l[2]
====
